---- MODULE Spec2Model ----
(***************************************************************************)
(* The tree backend (tree_backend/server.py) with its PostgreSQL store     *)
(* (tree_backend/init_db.py) and the one-off import script                 *)
(* (tree_backend/migrate_mongo_to_postgres.py).                            *)
(*                                                                         *)
(* The store is three tables: nodes, relationships, clicks.  Each HTTP     *)
(* request runs in its own thread on its own pooled connection, in one     *)
(* READ COMMITTED transaction: every statement sees what is committed when *)
(* it starts, a row deleted by an open transaction stays visible and       *)
(* locked until that transaction ends, and a connection given back to the  *)
(* pool with an open transaction is rolled back.  A handler is cut into    *)
(* steps at its SQL statements; a statement that is directly followed by   *)
(* commit is one step with it.                                             *)
(*                                                                         *)
(* The connection pool (db_pool) is built by startup, which Flask runs     *)
(* under its first-request lock before any request is dispatched; each     *)
(* decorated handler takes a connection and gives it back in finally.      *)
(***************************************************************************)
EXTENDS Integers, Sequences, FiniteSets, TLC

\* ------------------------------------------------------------- bounds
NodeIds == {1, 2, 3}            \* the uuids in play
Reqs == {"r1", "r2"}            \* request threads (app.run(threaded=True))
Times == {0, 1}                 \* readings of datetime.utcnow()
MaxRows == 2                    \* rows of relationships, and of clicks
MaxCount == 2                   \* largest clicks.count

VARIABLES
    uniq,       \* the database has unique indexes on relationships(parent_id,
                \* child_id) and clicks(source_id, target_id)
    nodes,      \* table nodes: rows [content_id, created_at]
    rels,       \* table relationships: rows [id, parent_id, child_id, created_at]
    clicks,     \* table clicks: rows [id, source_id, target_id, count,
                \*                     first_clicked, last_clicked]
    clock,      \* the wall clock
    req,        \* per request thread: the handler it runs, where it is, its
                \* locals, its open transaction and its response
    db_pool,    \* the global db_pool: 0 for None, else the pool object it names
    pools,      \* the pool objects constructed so far: for each, the threads
                \* that have a connection of it checked out
    flask       \* Flask's first-request state: who holds _before_request_lock
                \* ("" for nobody) and _got_first_request

poolvars == <<db_pool, pools, flask>>

vars == <<uniq, nodes, rels, clicks, clock, req, db_pool, pools, flask>>

\* ------------------------------------------------------------ requests
NoResp ==
    [status |-> 0, msg |-> "",
     count |-> 0,           \* click_link: count; the stats handlers: the total
     tree |-> <<>>,         \* get_tree: the list of entries
     ids |-> {},            \* the searches: the contentIds of the rows found
     list |-> <<>>,         \* the stats handlers: the connections
     stats |-> <<>>]        \* get_all_stats: node id -> totals

Idle ==
    [op |-> "idle", pc |-> "idle", a |-> 0, b |-> 0, now |-> 0,
     base |-> 0,            \* history, click_link: the pair's count before the request
     snap |-> <<>>,         \* get_tree: the ids the node query returned, in its order
     edges |-> {},          \* get_tree: the rows the relationship query returned
     pendR |-> {},          \* rows of relationships deleted, not yet committed
     pendC |-> {},          \* rows of clicks deleted, not yet committed
     total |-> 0,           \* the stats handlers: the total that was read
     inb |-> <<>>,          \* get_all_stats: inbound_stats
     outb |-> <<>>,         \* get_all_stats: outbound_stats
     valid |-> TRUE,        \* update_node: validate_node_data accepted the body
     hits |-> {},           \* the searches: the stored nodes that match the text
     resp |-> NoResp]

\* The handler returned: with_db_connection gives the connection back, and
\* putconn rolls back whatever the handler left uncommitted.
Respond(r, o, x, y, st, m, cnt, tr) ==
    req' = [req EXCEPT ![r] =
              [Idle EXCEPT !.op = o, !.pc = "done", !.a = x, !.b = y,
                           !.resp = [NoResp EXCEPT !.status = st, !.msg = m,
                                                   !.count = cnt, !.tree = tr]]]

\* The same for a handler that is past its first statement; its arguments and
\* what it read stay with the response.
Finish(r, st, m, cnt, tr) ==
    req' = [req EXCEPT ![r] =
              [@ EXCEPT !.pc = "done", !.pendR = {}, !.pendC = {},
                        !.resp = [NoResp EXCEPT !.status = st, !.msg = m,
                                                !.count = cnt, !.tree = tr]]]

\* The rows of a table that another open transaction has deleted and not yet
\* committed: a statement that has to write one of them waits.
LockedR(r) == UNION {req[q].pendR : q \in Reqs \ {r}}
LockedC(r) == UNION {req[q].pendC : q \in Reqs \ {r}}

\* ------------------------------------------------------------- tables
NodeIdsStored == {n.content_id : n \in nodes}

\* id SERIAL: a value no row of the table has.
NextId(rows) ==
    CHOOSE i \in 1..(Cardinality(rows) + 1) :
        /\ i \notin {x.id : x \in rows}
        /\ \A j \in 1..(i - 1) : j \in {x.id : x \in rows}

\* A node check that is content with one of the two rows.
one_found(x, y) == Cardinality({n \in nodes : n.content_id \in {x, y}}) >= 1

\* SELECT 1 FROM nodes WHERE content_id IN (x, y); len(fetchall()) != 2
both_found(x, y) == Cardinality({n \in nodes : n.content_id \in {x, y}}) = 2

\* All orders in which ORDER BY key may return the rows: ascending in key, rows
\* with equal keys in any order.
Perms(S) ==
    {f \in [1..Cardinality(S) -> S] :
        \A i, j \in 1..Cardinality(S) : i # j => f[i] # f[j]}

OrderByCreatedAt(S) ==
    {f \in Perms(S) :
        \A i \in 1..(Cardinality(S) - 1) : f[i].created_at <= f[i + 1].created_at}

Init ==
    /\ uniq \in BOOLEAN
    /\ nodes = {}
    /\ rels = {}
    /\ clicks = {}
    /\ clock = 0
    /\ req = [r \in Reqs |-> Idle]
    /\ db_pool = 0
    /\ pools = <<>>
    /\ flask = [lock |-> "", got_first_request |-> FALSE]

\* --------------------------------------------------------------- clock
Tick ==
    /\ clock + 1 \in Times
    /\ clock' = clock + 1
    /\ UNCHANGED <<poolvars, uniq, nodes, rels, clicks, req>>

\* The client has read the response; the thread takes the next request.
Return(r) ==
    /\ req[r].pc = "done"
    /\ req' = [req EXCEPT ![r] = Idle]
    /\ UNCHANGED <<poolvars, uniq, nodes, rels, clicks, clock>>

\* ------------------------------------------------------- POST /node/create
\* uuid.uuid4() gives an id that nothing in the store or in flight refers to.
\* Ids are opaque, so the least such id stands for any of them.
Referenced ==
    NodeIdsStored
      \cup {x.parent_id : x \in rels} \cup {x.child_id : x \in rels}
      \cup {x.source_id : x \in clicks} \cup {x.target_id : x \in clicks}
      \cup UNION {{req[q].a, req[q].b} : q \in Reqs}
      \cup UNION {{req[q].snap[i] : i \in 1..Len(req[q].snap)} : q \in Reqs}
      \cup UNION {{x.parent_id : x \in req[q].edges} : q \in Reqs}
      \cup UNION {{x.child_id : x \in req[q].edges} : q \in Reqs}

uuid4 == CHOOSE id \in NodeIds \ Referenced : \A x \in NodeIds \ Referenced : id <= x

create_node(r) ==
    /\ req[r].pc = "idle"
    /\ \E valid \in BOOLEAN :
         IF ~valid
         THEN /\ Respond(r, "create_node", 0, 0, 400, "Name is required", 0, <<>>)
              /\ UNCHANGED nodes
         ELSE /\ NodeIds \ Referenced # {}
              /\ LET id == uuid4
                 IN  /\ nodes' = nodes \cup {[content_id |-> id, created_at |-> clock]}
                     /\ Respond(r, "create_node", id, 0, 200, "", 0, <<>>)
    /\ UNCHANGED <<poolvars, uniq, rels, clicks, clock>>

\* ------------------------------------------------- PUT /node/update/<id>
\* A node check that finds a row for every id.
node_found_any(id) == TRUE

\* SELECT 1 FROM nodes WHERE content_id = id; cur.fetchone() (lines 135-136)
node_found(id) == id \in NodeIdsStored

\* Validation and the node check (lines 128-137).  name, description and
\* status are not columns of the model's nodes table.
update_node(r) ==
    /\ req[r].pc = "idle"
    /\ \E ok \in BOOLEAN, id \in NodeIds :
         IF ~ok
         THEN req' = [req EXCEPT ![r] =
                        [Idle EXCEPT !.op = "update_node", !.pc = "done", !.a = id,
                                     !.valid = FALSE,
                                     !.resp = [NoResp EXCEPT !.status = 400,
                                                  !.msg = "Name is required"]]]
         ELSE IF ~node_found(id)
         THEN Respond(r, "update_node", id, 0, 404, "Node not found", 0, <<>>)
         ELSE req' = [req EXCEPT ![r] =
                        [Idle EXCEPT !.op = "update_node", !.pc = "update", !.a = id]]
    /\ UNCHANGED <<poolvars, uniq, nodes, rels, clicks, clock>>

\* UPDATE nodes SET ... WHERE content_id = id RETURNING ..., commit, and
\* dict(result) (lines 140-157); dict(None) raises when no row was updated.
update_node_update(r) ==
    /\ req[r].op = "update_node"
    /\ req[r].pc = "update"
    /\ IF req[r].a \in NodeIdsStored
       THEN Finish(r, 200, "", 0, <<>>)
       ELSE Finish(r, 500, "Database error", 0, <<>>)
    /\ UNCHANGED <<poolvars, uniq, nodes, rels, clicks, clock>>

\* ------------------------------------------------------ GET /node/search...
\* The search without its NOT IN condition.
unrelated_with_children(hits, id, rows) == hits \ {id}

\* WHERE content_id != id AND (...) AND content_id NOT IN (SELECT child_id
\* FROM relationships WHERE parent_id = id) (lines 205-209)
unrelated(hits, id, rows) ==
    {n \in hits : n # id /\ n \notin {x.child_id : x \in {y \in rows : y.parent_id = id}}}

\* GET /node/search_unrelated/<id>/<term> (lines 197-217): one statement.
\* hits are the stored nodes whose name or description is ILIKE the pattern;
\* with names free, any set of stored nodes.
search_unrelated_nodes(r) ==
    /\ req[r].pc = "idle"
    /\ \E id \in NodeIds, hits \in SUBSET NodeIdsStored :
         LET results == unrelated(hits, id, rels)
         IN  req' = [req EXCEPT ![r] =
                       [Idle EXCEPT !.op = "search_unrelated_nodes", !.pc = "done",
                                    !.a = id, !.hits = hits,
                                    !.resp = IF results = {}
                                             THEN [NoResp EXCEPT !.status = 404,
                                                      !.msg = "No unrelated match"]
                                             ELSE [NoResp EXCEPT !.status = 200,
                                                      !.ids = results]]]
    /\ UNCHANGED <<poolvars, uniq, nodes, rels, clicks, clock>>

\* GET /node/search/<term> (lines 221-236)
search_nodes(r) ==
    /\ req[r].pc = "idle"
    /\ \E hits \in SUBSET NodeIdsStored :
         req' = [req EXCEPT ![r] =
                   [Idle EXCEPT !.op = "search_nodes", !.pc = "done", !.hits = hits,
                                !.resp = IF hits = {}
                                         THEN [NoResp EXCEPT !.status = 404,
                                                  !.msg = "No match"]
                                         ELSE [NoResp EXCEPT !.status = 200,
                                                  !.ids = hits]]]
    /\ UNCHANGED <<poolvars, uniq, nodes, rels, clicks, clock>>

\* ----------------------------------------------------- POST /relation/create
\* Validation and the node check (lines 245-255).
create_relation(r) ==
    /\ req[r].pc = "idle"
    /\ \E p, c \in NodeIds :
         IF p = c
         THEN Respond(r, "create_relation", p, c, 400,
                      "Cannot create self-relationship", 0, <<>>)
         ELSE IF ~both_found(p, c)
         THEN Respond(r, "create_relation", p, c, 404,
                      "One or both nodes not found", 0, <<>>)
         ELSE req' = [req EXCEPT ![r] =
                        [Idle EXCEPT !.op = "create_relation", !.pc = "insert",
                                     !.a = p, !.b = c]]
    /\ UNCHANGED <<poolvars, uniq, nodes, rels, clicks, clock>>

\* INSERT ... ON CONFLICT (parent_id, child_id) DO NOTHING needs a unique index
\* on exactly these columns to arbitrate; without one PostgreSQL rejects the
\* statement and with_db_connection answers 500.
on_conflict_raises(hasIndex) == ~hasIndex

\* The INSERT and what follows it (lines 257-269).  A conflicting row that an
\* open transaction has deleted makes the INSERT wait for that transaction.
create_relation_insert(r) ==
    LET p == req[r].a
        c == req[r].b
        same == {x \in rels : x.parent_id = p /\ x.child_id = c}
    IN  /\ req[r].op = "create_relation"
        /\ req[r].pc = "insert"
        /\ IF on_conflict_raises(uniq)
           THEN /\ Finish(r, 500, "Database error", 0, <<>>)
                /\ UNCHANGED rels
           ELSE IF same # {}
           THEN /\ {x.id : x \in same} \cap LockedR(r) = {}
                /\ Finish(r, 200, "Relationship already exists", 0, <<>>)
                /\ UNCHANGED rels
           ELSE /\ Cardinality(rels) < MaxRows
                /\ rels' = rels \cup {[id |-> NextId(rels), parent_id |-> p,
                                       child_id |-> c, created_at |-> clock]}
                /\ Finish(r, 200, "Relationship created", 0, <<>>)
        /\ UNCHANGED <<poolvars, uniq, nodes, clicks, clock>>

\* ------------------------------------------------------------- GET /tree
\* The check of line 425 without its second half.
in_node_map_parent_only(rel, ids) == rel.parent_id \in ids

\* if parent_id in node_map and child_id in node_map (line 425)
in_node_map(rel, ids) == rel.parent_id \in ids /\ rel.child_id \in ids

\* node_map[p]['children'] after the loop over the relationships (lines 422-427)
RECURSIVE children(_, _, _)
children(p, relSeq, ids) ==
    IF relSeq = <<>> THEN <<>>
    ELSE LET rest == children(p, Tail(relSeq), ids)
         IN  IF in_node_map(Head(relSeq), ids) /\ Head(relSeq).parent_id = p
             THEN <<Head(relSeq).child_id>> \o rest
             ELSE rest

\* child_nodes after the loop (lines 420, 427)
child_nodes(relSeq, ids) ==
    {relSeq[i].child_id : i \in {j \in 1..Len(relSeq) : in_node_map(relSeq[j], ids)}}

SeqRange(s) == {s[i] : i \in 1..Len(s)}

\* root_nodes without the fallback of lines 433-434.
root_nodes_no_fallback(nodeSeq, relSeq) ==
    SelectSeq(nodeSeq, LAMBDA id : id \notin child_nodes(relSeq, SeqRange(nodeSeq)))

\* root_nodes (lines 430-434): the nodes that are nobody's child, in the order
\* of the node query; the first node when there is none.
root_nodes(nodeSeq, relSeq) ==
    LET ids == SeqRange(nodeSeq)
        roots == SelectSeq(nodeSeq, LAMBDA id : id \notin child_nodes(relSeq, ids))
    IN  IF roots = <<>> /\ nodeSeq # <<>> THEN <<nodeSeq[1]>> ELSE roots

\* result (line 437): one entry per root node, with its children id list.
tree_result(nodeSeq, relSeq) ==
    LET roots == root_nodes(nodeSeq, relSeq)
    IN  [i \in 1..Len(roots) |->
            [contentId |-> roots[i],
             children |-> children(roots[i], relSeq, SeqRange(nodeSeq))]]

\* SELECT ... FROM nodes ORDER BY created_at (lines 393-405)
get_tree(r) ==
    /\ req[r].pc = "idle"
    /\ \E rows \in OrderByCreatedAt(nodes) :
         IF rows = <<>>
         THEN Respond(r, "get_tree", 0, 0, 200, "", 0, <<>>)
         ELSE req' = [req EXCEPT ![r] =
                        [Idle EXCEPT !.op = "get_tree", !.pc = "edges",
                                     !.snap = [i \in 1..Len(rows) |-> rows[i].content_id]]]
    /\ UNCHANGED <<poolvars, uniq, nodes, rels, clicks, clock>>

\* SELECT parent_id, child_id FROM relationships ORDER BY created_at, and the
\* assembly (lines 407-439)
get_tree_edges(r) ==
    /\ req[r].op = "get_tree"
    /\ req[r].pc = "edges"
    /\ \E rows \in OrderByCreatedAt(rels) :
         req' = [req EXCEPT ![r] =
                   [@ EXCEPT !.pc = "done", !.edges = rels,
                             !.resp = [NoResp EXCEPT !.status = 200,
                                          !.tree = tree_result(req[r].snap, rows)]]]
    /\ UNCHANGED <<poolvars, uniq, nodes, rels, clicks, clock>>

\* ---------------------------------------------------------- POST /link/click
\* The count stored for a pair, 0 when it has no counter.
StoredCount(s, t) ==
    LET same == {x \in clicks : x.source_id = s /\ x.target_id = t}
    IN  IF same = {} THEN 0 ELSE (CHOOSE x \in same : TRUE).count

\* Validation, now = now_utc() and the node check (lines 309-318).
click_link(r) ==
    /\ req[r].pc = "idle"
    /\ \E s, t \in NodeIds :
         IF ~both_found(s, t)
         THEN Respond(r, "click_link", s, t, 404, "One or both nodes not found", 0, <<>>)
         ELSE req' = [req EXCEPT ![r] =
                        [Idle EXCEPT !.op = "click_link", !.pc = "upsert",
                                     !.a = s, !.b = t, !.now = clock,
                                     !.base = StoredCount(s, t)]]
    /\ UNCHANGED <<poolvars, uniq, nodes, rels, clicks, clock>>

\* DO UPDATE that leaves count as it is.
conflict_count_same(row) == row.count

\* DO UPDATE SET count = clicks.count + 1 (line 326)
conflict_count(row) == row.count + 1

\* INSERT ... ON CONFLICT (source_id, target_id) DO UPDATE ... RETURNING count,
\* commit, and the response (lines 320-332).  The statement is atomic: it
\* locks the conflicting row, and waits while an open transaction holds it.
click_link_upsert(r) ==
    LET s == req[r].a
        t == req[r].b
        same == {x \in clicks : x.source_id = s /\ x.target_id = t}
    IN  /\ req[r].op = "click_link"
        /\ req[r].pc = "upsert"
        /\ IF on_conflict_raises(uniq)
           THEN /\ Finish(r, 500, "Database error", 0, <<>>)
                /\ UNCHANGED clicks
           ELSE IF same = {}
           THEN /\ Cardinality(clicks) < MaxRows
                /\ clicks' = clicks \cup
                      {[id |-> NextId(clicks), source_id |-> s, target_id |-> t,
                        count |-> 1, first_clicked |-> req[r].now,
                        last_clicked |-> req[r].now]}
                /\ Finish(r, 200, "Click recorded", 1, <<>>)
           ELSE \E row \in same :
                /\ row.id \notin LockedC(r)
                /\ conflict_count(row) <= MaxCount
                /\ clicks' = (clicks \ {row}) \cup
                      {[row EXCEPT !.count = conflict_count(row),
                                   !.last_clicked = req[r].now]}
                /\ Finish(r, 200, "Click recorded", conflict_count(row), <<>>)
        /\ UNCHANGED <<poolvars, uniq, nodes, rels, clock>>

\* ------------------------------------------------------------- the stats
\* SUM(count) over a set of rows of clicks; COALESCE(..., 0) for no row.
RECURSIVE SumCount(_)
SumCount(rows) ==
    IF rows = {} THEN 0
    ELSE LET x == CHOOSE y \in rows : TRUE
         IN  x.count + SumCount(rows \ {x})

\* All orders in which ORDER BY count DESC may return the rows.
OrderByCountDesc(S) ==
    {f \in Perms(S) :
        \A i \in 1..(Cardinality(S) - 1) : f[i].count >= f[i + 1].count}

\* GET /inbound_stats/<id>, first statement: the total (lines 339-344).
inbound_stats(r) ==
    /\ req[r].pc = "idle"
    /\ \E id \in NodeIds :
         req' = [req EXCEPT ![r] =
                   [Idle EXCEPT !.op = "inbound_stats", !.pc = "connections", !.a = id,
                                !.total = SumCount({x \in clicks : x.target_id = id})]]
    /\ UNCHANGED <<poolvars, uniq, nodes, rels, clicks, clock>>

\* Second statement: the connections, and the response (lines 347-359).
inbound_stats_connections(r) ==
    /\ req[r].op = "inbound_stats"
    /\ req[r].pc = "connections"
    /\ \E rows \in OrderByCountDesc({x \in clicks : x.target_id = req[r].a}) :
         req' = [req EXCEPT ![r] =
                   [@ EXCEPT !.pc = "done",
                             !.resp = [NoResp EXCEPT !.status = 200,
                                          !.count = req[r].total,
                                          !.list = [i \in 1..Len(rows) |->
                                                      [id |-> rows[i].source_id,
                                                       count |-> rows[i].count]]]]]
    /\ UNCHANGED <<poolvars, uniq, nodes, rels, clicks, clock>>

\* GET /outbound_stats/<id>, first statement: the total (lines 366-371).
outbound_stats(r) ==
    /\ req[r].pc = "idle"
    /\ \E id \in NodeIds :
         req' = [req EXCEPT ![r] =
                   [Idle EXCEPT !.op = "outbound_stats", !.pc = "connections", !.a = id,
                                !.total = SumCount({x \in clicks : x.source_id = id})]]
    /\ UNCHANGED <<poolvars, uniq, nodes, rels, clicks, clock>>

\* Second statement: the connections, and the response (lines 374-386).
outbound_stats_connections(r) ==
    /\ req[r].op = "outbound_stats"
    /\ req[r].pc = "connections"
    /\ \E rows \in OrderByCountDesc({x \in clicks : x.source_id = req[r].a}) :
         req' = [req EXCEPT ![r] =
                   [@ EXCEPT !.pc = "done",
                             !.resp = [NoResp EXCEPT !.status = 200,
                                          !.count = req[r].total,
                                          !.list = [i \in 1..Len(rows) |->
                                                      [id |-> rows[i].target_id,
                                                       count |-> rows[i].count]]]]]
    /\ UNCHANGED <<poolvars, uniq, nodes, rels, clicks, clock>>

\* SELECT target_id, SUM(count) FROM clicks GROUP BY target_id, as the dict
\* inbound_stats (lines 446-453)
inbound_totals(rows) ==
    [n \in {x.target_id : x \in rows} |-> SumCount({x \in rows : x.target_id = n})]

\* SELECT source_id, SUM(count) FROM clicks GROUP BY source_id, as the dict
\* outbound_stats (lines 456-463)
outbound_totals(rows) ==
    [n \in {x.source_id : x \in rows} |-> SumCount({x \in rows : x.source_id = n})]

\* dict.get(k, 0)
get(d, k) == IF k \in DOMAIN d THEN d[k] ELSE 0

\* GET /stats/all, first statement (lines 446-453).
get_all_stats(r) ==
    /\ req[r].pc = "idle"
    /\ req' = [req EXCEPT ![r] =
                 [Idle EXCEPT !.op = "get_all_stats", !.pc = "outbound",
                              !.inb = inbound_totals(clicks)]]
    /\ UNCHANGED <<poolvars, uniq, nodes, rels, clicks, clock>>

\* Second statement (lines 456-463).
get_all_stats_outbound(r) ==
    /\ req[r].op = "get_all_stats"
    /\ req[r].pc = "outbound"
    /\ req' = [req EXCEPT ![r] = [@ EXCEPT !.pc = "nodes",
                                           !.outb = outbound_totals(clicks)]]
    /\ UNCHANGED <<poolvars, uniq, nodes, rels, clicks, clock>>

\* SELECT content_id FROM nodes, and the result: one entry per node id that
\* the node query returned (lines 466-478).
get_all_stats_nodes(r) ==
    /\ req[r].op = "get_all_stats"
    /\ req[r].pc = "nodes"
    /\ req' = [req EXCEPT ![r] =
                 [@ EXCEPT !.pc = "done",
                           !.resp = [NoResp EXCEPT !.status = 200,
                                        !.stats = [n \in NodeIdsStored |->
                                             [total_inbound_count |-> get(req[r].inb, n),
                                              total_outbound_count |-> get(req[r].outb, n)]]]]]
    /\ UNCHANGED <<poolvars, uniq, nodes, rels, clicks, clock>>

\* --------------------------------------------------- DELETE /relation/delete
\* A connection whose open transaction is committed when it is given back.
return_db_connection_commits(rows, pend) == {x \in rows : x.id \notin pend}

\* return_db_connection (lines 46-48): putconn rolls back the transaction the
\* handler left open, so the rows it deleted without commit stay stored.
return_db_connection(rows, pend) == rows

\* DELETE FROM clicks WHERE (source, target) = (p, c) OR (source, target) = (c, p)
\* (lines 283-287).  The rows are deleted in the handler's transaction only.
delete_relation(r) ==
    /\ req[r].pc = "idle"
    /\ \E p, c \in NodeIds :
         LET gone == {x.id : x \in {y \in clicks :
                         \/ y.source_id = p /\ y.target_id = c
                         \/ y.source_id = c /\ y.target_id = p}}
         IN  /\ gone \cap LockedC(r) = {}
             /\ req' = [req EXCEPT ![r] =
                          [Idle EXCEPT !.op = "delete_relation", !.pc = "del_rel",
                                       !.a = p, !.b = c, !.pendC = gone]]
    /\ UNCHANGED <<poolvars, uniq, nodes, rels, clicks, clock>>

\* DELETE FROM relationships WHERE parent_id = p AND child_id = c RETURNING id,
\* then 404 without commit when no row was deleted, else commit (lines 290-300).
delete_relation_rels(r) ==
    LET gone == {x.id : x \in {y \in rels : y.parent_id = req[r].a
                                              /\ y.child_id = req[r].b}}
    IN  /\ req[r].op = "delete_relation"
        /\ req[r].pc = "del_rel"
        /\ gone \cap LockedR(r) = {}
        /\ IF gone = {}
           THEN /\ clicks' = return_db_connection(clicks, req[r].pendC)
                /\ rels' = rels
                /\ Finish(r, 404, "Relationship not found", 0, <<>>)
           ELSE /\ clicks' = {x \in clicks : x.id \notin req[r].pendC}
                /\ rels' = {x \in rels : x.id \notin gone}
                /\ Finish(r, 200, "Relationship deleted", 0, <<>>)
        /\ UNCHANGED <<poolvars, uniq, nodes, clock>>

\* ------------------------------------------------- DELETE /node/delete/<id>
\* A set_session that psycopg2 would accept at any time.
set_session_accepted(inTransaction) == FALSE

\* conn.set_session(autocommit=False) (line 169): psycopg2 refuses set_session
\* on a connection that is inside a transaction (ProgrammingError: set_session
\* cannot be used inside a transaction).
set_session_raises(inTransaction) == inTransaction

\* The whole handler (lines 162-193).  The SELECT of line 164 has opened a
\* transaction when line 169 runs, and line 169 is outside the try block: the
\* exception reaches with_db_connection, which answers 500.
delete_node(r) ==
    /\ \/ /\ req[r].pc = "idle"
          /\ \E id \in NodeIds :
               IF id \notin NodeIdsStored
               THEN Respond(r, "delete_node", id, 0, 404, "Node not found", 0, <<>>)
               ELSE IF set_session_raises(TRUE)
               THEN Respond(r, "delete_node", id, 0, 500, "Database error", 0, <<>>)
               ELSE req' = [req EXCEPT ![r] =
                              [Idle EXCEPT !.op = "delete_node", !.pc = "del_rels",
                                           !.a = id]]
          /\ UNCHANGED <<nodes, rels, clicks>>
       \/ /\ req[r].op = "delete_node"
          /\ req[r].pc = "del_rels"
          /\ LET gone == {x.id : x \in {y \in rels : y.parent_id = req[r].a
                                                      \/ y.child_id = req[r].a}}
             IN  /\ gone \cap LockedR(r) = {}
                 /\ req' = [req EXCEPT ![r] = [@ EXCEPT !.pc = "del_clicks",
                                                        !.pendR = gone]]
          /\ UNCHANGED <<nodes, rels, clicks>>
       \/ /\ req[r].op = "delete_node"
          /\ req[r].pc = "del_clicks"
          /\ LET gone == {x.id : x \in {y \in clicks : y.source_id = req[r].a
                                                        \/ y.target_id = req[r].a}}
             IN  /\ gone \cap LockedC(r) = {}
                 /\ req' = [req EXCEPT ![r] = [@ EXCEPT !.pc = "del_node",
                                                        !.pendC = gone]]
          /\ UNCHANGED <<nodes, rels, clicks>>
       \/ /\ req[r].op = "delete_node"
          /\ req[r].pc = "del_node"
          /\ IF req[r].a \notin NodeIdsStored
             THEN /\ Finish(r, 404, "Node not found", 0, <<>>)
                  /\ UNCHANGED <<nodes, rels, clicks>>
             ELSE /\ nodes' = {n \in nodes : n.content_id # req[r].a}
                  /\ rels' = {x \in rels : x.id \notin req[r].pendR}
                  /\ clicks' = {x \in clicks : x.id \notin req[r].pendC}
                  /\ Finish(r, 200, "Node deleted", 0, <<>>)
       \/ \* a DELETE raises: except, conn.rollback(), 500 (lines 190-193)
          /\ req[r].op = "delete_node"
          /\ req[r].pc \in {"del_rels", "del_clicks", "del_node"}
          /\ Finish(r, 500, "Failed to delete node", 0, <<>>)
          /\ UNCHANGED <<nodes, rels, clicks>>
    /\ UNCHANGED <<poolvars, uniq, clock>>

\* ------------------------------------------- migrate_mongo_to_postgres.py
\* The script runs on its own connection, one transaction per collection; an
\* empty collection is skipped, so each of the three runs on its own too.
\* Here a collection holds one document.  A document's createdAt is its own
\* or, when missing, utcnow().  The documents were written through the same
\* API: none relates a node to itself.
NodeDocs == [content_id : NodeIds, created_at : Times]

RelDocs ==
    {d \in [parent_id : NodeIds, child_id : NodeIds, created_at : Times] :
        d.parent_id # d.child_id}

ClickDocs ==
    {d \in [source_id : NodeIds, target_id : NodeIds, count : 0..MaxCount,
            first_clicked : Times, last_clicked : Times] :
        d.source_id # d.target_id}

\* INSERT INTO nodes ... ON CONFLICT (content_id) DO NOTHING (lines 54-64);
\* content_id is the primary key of nodes.
migrate_nodes ==
    /\ \E d \in NodeDocs :
         nodes' = IF d.content_id \in NodeIdsStored THEN nodes ELSE nodes \cup {d}
    /\ UNCHANGED <<poolvars, uniq, rels, clicks, clock, req>>

\* A plain INSERT (lines 98-107): with the unique index a repeated pair fails
\* the statement and the transaction; without it the row is added.
migrate_relationships ==
    /\ Cardinality(rels) < MaxRows
    /\ \E d \in RelDocs :
         rels' = IF uniq /\ \E x \in rels : /\ x.parent_id = d.parent_id
                                            /\ x.child_id = d.child_id
                 THEN rels
                 ELSE rels \cup {[id |-> NextId(rels), parent_id |-> d.parent_id,
                                  child_id |-> d.child_id, created_at |-> d.created_at]}
    /\ UNCHANGED <<poolvars, uniq, nodes, clicks, clock, req>>

\* A plain INSERT (lines 157-166); count is the document's, 0 when missing.
migrate_clicks ==
    /\ Cardinality(clicks) < MaxRows
    /\ \E d \in ClickDocs :
         clicks' = IF uniq /\ \E x \in clicks : /\ x.source_id = d.source_id
                                                /\ x.target_id = d.target_id
                   THEN clicks
                   ELSE clicks \cup {[id |-> NextId(clicks), source_id |-> d.source_id,
                                      target_id |-> d.target_id, count |-> d.count,
                                      first_clicked |-> d.first_clicked,
                                      last_clicked |-> d.last_clicked]}
    /\ UNCHANGED <<poolvars, uniq, nodes, rels, clock, req>>

\* ------------------------------------------------- the connection pool
\* The data handlers above run between the two ends of with_db_connection.
\* Here a request is that decorator around a handler of which only the way it
\* ends matters: it returns, returns early (validation, not-found), or raises.

\* A lock that lets every thread through.
lock_ignored(holder) == TRUE

\* Flask runs the before_first_request functions (startup, lines 493-495)
\* inside `with self._before_request_lock`, before it dispatches any request.
lock_free(holder) == holder = ""

\* A finally clause that is skipped when the handler raised.
finally_runs_unless_raised(status) == status # 500

\* finally: return_db_connection(conn) (lines 61-62) runs however the try
\* block was left.
finally_runs(status) == TRUE

\* The threads that have a connection checked out, of whatever pool.
CheckedOut == UNION {pools[k] : k \in DOMAIN pools}

\* ThreadedConnectionPool(...) (lines 33-38): a new pool object, no connection
\* of it in use.
NewPool == Cardinality(DOMAIN pools) + 1

\* The request arrives.  Flask's try_trigger_before_first_request_functions:
\* nothing to do once _got_first_request is set; else take the lock, look
\* again, and run startup under the lock.
before_first_request(r) ==
    /\ \/ /\ req[r].pc = "idle"
          /\ req' = [req EXCEPT ![r] =
                       [Idle EXCEPT !.op = "request",
                                    !.pc = IF flask.got_first_request
                                           THEN "get" ELSE "lock"]]
          /\ flask' = flask
       \/ /\ req[r].op = "request"
          /\ req[r].pc = "lock"
          /\ lock_free(flask.lock)
          /\ IF flask.got_first_request
             THEN /\ req' = [req EXCEPT ![r] = [@ EXCEPT !.pc = "get"]]
                  /\ flask' = flask
             ELSE /\ req' = [req EXCEPT ![r] = [@ EXCEPT !.pc = "startup"]]
                  /\ flask' = [flask EXCEPT !.lock = r]
    /\ UNCHANGED <<uniq, nodes, rels, clicks, clock, db_pool, pools>>

\* startup() calls init_db_pool() (lines 30-39, 493-495): `if not db_pool`,
\* then the constructor, which opens minconn connections and may raise, then
\* the assignment to the global.  When startup raises, the request fails and
\* _got_first_request stays unset.
startup(r) ==
    /\ req[r].op = "request"
    /\ \/ /\ req[r].pc = "startup"
          /\ IF db_pool = 0
             THEN /\ req' = [req EXCEPT ![r] = [@ EXCEPT !.pc = "construct"]]
                  /\ flask' = flask
             ELSE /\ req' = [req EXCEPT ![r] = [@ EXCEPT !.pc = "get"]]
                  /\ flask' = [lock |-> "", got_first_request |-> TRUE]
          /\ UNCHANGED <<db_pool, pools>>
       \/ /\ req[r].pc = "construct"
          /\ \/ /\ db_pool' = NewPool
                /\ pools' = [k \in DOMAIN pools \cup {NewPool} |->
                                IF k \in DOMAIN pools THEN pools[k] ELSE {}]
                /\ flask' = [lock |-> "", got_first_request |-> TRUE]
                /\ req' = [req EXCEPT ![r] = [@ EXCEPT !.pc = "get"]]
             \/ /\ UNCHANGED <<db_pool, pools>>
                /\ flask' = [flask EXCEPT !.lock = ""]
                /\ Finish(r, 500, "Internal Server Error", 0, <<>>)
    /\ UNCHANGED <<uniq, nodes, rels, clicks, clock>>

\* conn = get_db_connection() (lines 41-44, 54), with the init_db_pool it
\* calls when it finds no pool: the check of line 32, then the constructor
\* and the assignment, which replaces whatever db_pool holds by then.
get_db_connection(r) ==
    /\ req[r].op = "request"
    /\ \/ /\ req[r].pc = "get"
          /\ IF db_pool = 0
             THEN /\ req' = [req EXCEPT ![r] = [@ EXCEPT !.pc = "init"]]
                  /\ pools' = pools
             ELSE /\ req' = [req EXCEPT ![r] = [@ EXCEPT !.pc = "handler"]]
                  /\ pools' = [pools EXCEPT ![db_pool] = @ \cup {r}]
          /\ db_pool' = db_pool
       \/ /\ req[r].pc = "init"
          /\ req' = [req EXCEPT ![r] =
                       [@ EXCEPT !.pc = IF db_pool = 0 THEN "init_construct" ELSE "get"]]
          /\ UNCHANGED <<db_pool, pools>>
       \/ /\ req[r].pc = "init_construct"
          /\ \/ /\ db_pool' = NewPool
                /\ pools' = [k \in DOMAIN pools \cup {NewPool} |->
                                IF k \in DOMAIN pools THEN pools[k] ELSE {}]
                /\ req' = [req EXCEPT ![r] = [@ EXCEPT !.pc = "get"]]
             \/ /\ UNCHANGED <<db_pool, pools>>
                /\ Finish(r, 500, "Internal Server Error", 0, <<>>)
    /\ UNCHANGED <<uniq, nodes, rels, clicks, clock, flask>>

\* try: result = f(conn, ...); return result / except Exception: 500
\* (lines 55-60).  The response is kept until finally has run.
decorated_function(r) ==
    /\ req[r].op = "request"
    /\ req[r].pc = "handler"
    /\ \E st \in {200, 404, 500} :
         req' = [req EXCEPT ![r] =
                   [@ EXCEPT !.pc = "finally",
                             !.resp = [NoResp EXCEPT !.status = st,
                                          !.msg = IF st = 500 THEN "Database error"
                                                  ELSE ""]]]
    /\ UNCHANGED <<poolvars, uniq, nodes, rels, clicks, clock>>

\* finally: return_db_connection(conn), that is db_pool.putconn(conn) on the
\* pool that db_pool names now (lines 46-48, 61-62).  putconn of a connection
\* of another pool raises PoolError and leaves the connection where it was.
finally_return(r) ==
    /\ req[r].op = "request"
    /\ req[r].pc = "finally"
    /\ IF finally_runs(req[r].resp.status) /\ db_pool # 0 /\ r \in pools[db_pool]
       THEN /\ pools' = [pools EXCEPT ![db_pool] = @ \ {r}]
            /\ req' = [req EXCEPT ![r] = [@ EXCEPT !.pc = "done"]]
       ELSE /\ pools' = pools
            /\ req' = [req EXCEPT ![r] =
                         [@ EXCEPT !.pc = "done",
                                   !.resp = IF finally_runs(req[r].resp.status)
                                            THEN [NoResp EXCEPT !.status = 500,
                                                     !.msg = "Internal Server Error"]
                                            ELSE @]]
    /\ UNCHANGED <<uniq, nodes, rels, clicks, clock, db_pool, flask>>

\* ------------------------------------------------------- specifications
Next ==
    \/ Tick
    \/ migrate_nodes
    \/ migrate_relationships
    \/ migrate_clicks
    \/ \E r \in Reqs :
         \/ Return(r)
         \/ create_node(r)
         \/ create_relation(r)
         \/ create_relation_insert(r)
         \/ click_link(r)
         \/ click_link_upsert(r)
         \/ delete_node(r)
         \/ get_tree(r)
         \/ get_tree_edges(r)
         \/ delete_relation(r)
         \/ delete_relation_rels(r)
         \/ inbound_stats(r)
         \/ inbound_stats_connections(r)
         \/ outbound_stats(r)
         \/ outbound_stats_connections(r)
         \/ get_all_stats(r)
         \/ get_all_stats_outbound(r)
         \/ get_all_stats_nodes(r)
         \/ update_node(r)
         \/ update_node_update(r)
         \/ search_unrelated_nodes(r)
         \/ search_nodes(r)
         \/ before_first_request(r)
         \/ startup(r)
         \/ get_db_connection(r)
         \/ decorated_function(r)
         \/ finally_return(r)

Spec == Init /\ [][Next]_vars

\* One request at a time, on nodes and relationships: the store is filled by
\* the API and by the import, and read by GET /tree.
NextTree ==
    \/ Tick
    \/ migrate_relationships
    \/ \E r \in {"r1"} :
         \/ Return(r)
         \/ create_node(r)
         \/ create_relation(r)
         \/ create_relation_insert(r)
         \/ get_tree(r)
         \/ get_tree_edges(r)

SpecTree == Init /\ [][NextTree]_vars

\* Concurrent requests on two stored nodes: create edge, record click and
\* delete node, in every interleaving of their steps.
InitRace ==
    /\ uniq \in BOOLEAN
    /\ nodes = {[content_id |-> 1, created_at |-> 0], [content_id |-> 2, created_at |-> 0]}
    /\ rels = {}
    /\ clicks = {}
    /\ clock = 0
    /\ req = [r \in Reqs |-> Idle]
    /\ db_pool = 0
    /\ pools = <<>>
    /\ flask = [lock |-> "", got_first_request |-> FALSE]

NextRace ==
    \/ Tick
    \/ \E r \in Reqs :
         \/ Return(r)
         \/ create_relation(r)
         \/ create_relation_insert(r)
         \/ click_link(r)
         \/ click_link_upsert(r)
         \/ delete_node(r)

SpecRace == InitRace /\ [][NextRace]_vars

\* One request at a time on two stored nodes: edges and click counters are
\* created through the API, and edges are deleted.
NextEdge ==
    \/ Tick
    \/ \E r \in {"r1"} :
         \/ Return(r)
         \/ create_relation(r)
         \/ create_relation_insert(r)
         \/ click_link(r)
         \/ click_link_upsert(r)
         \/ delete_relation(r)
         \/ delete_relation_rels(r)

SpecEdge == InitRace /\ [][NextEdge]_vars

\* Concurrent GET /tree requests on two nodes of the same created_at, while
\* relationships are imported.
NextRead ==
    \/ Tick
    \/ migrate_relationships
    \/ \E r \in Reqs :
         \/ Return(r)
         \/ get_tree(r)
         \/ get_tree_edges(r)

SpecRead == InitRace /\ [][NextRead]_vars

\* One request at a time on the nodes: they are created, updated, deleted and
\* searched, with imported relationships.
NextNode ==
    \/ migrate_relationships
    \/ \E r \in {"r1"} :
         \/ Return(r)
         \/ create_node(r)
         \/ update_node(r)
         \/ update_node_update(r)
         \/ delete_node(r)
         \/ search_unrelated_nodes(r)
         \/ search_nodes(r)

SpecNode == Init /\ [][NextNode]_vars

\* GET /stats/all, one request at a time, on imported click counters.
NextStats ==
    \/ migrate_clicks
    \/ \E r \in {"r1"} :
         \/ Return(r)
         \/ get_all_stats(r)
         \/ get_all_stats_outbound(r)
         \/ get_all_stats_nodes(r)

SpecStats == InitRace /\ [][NextStats]_vars

\* Concurrent record click and per-node stats requests on two stored nodes.
NextStatsRace ==
    \E r \in Reqs :
         \/ Return(r)
         \/ click_link(r)
         \/ click_link_upsert(r)
         \/ inbound_stats(r)
         \/ inbound_stats_connections(r)
         \/ outbound_stats(r)
         \/ outbound_stats_connections(r)

SpecStatsRace == InitRace /\ [][NextStatsRace]_vars

\* Concurrent requests from the start of the application, each the decorator
\* around some handler.
NextPool ==
    \E r \in Reqs :
         \/ Return(r)
         \/ before_first_request(r)
         \/ startup(r)
         \/ get_db_connection(r)
         \/ decorated_function(r)
         \/ finally_return(r)

SpecPool == Init /\ [][NextPool]_vars

\* A request thread that can take a step takes one: app.run(threaded=True)
\* gives each request its own thread, and the threads are scheduled fairly.
RequestStep(r) ==
    \/ startup(r)
    \/ get_db_connection(r)
    \/ decorated_function(r)
    \/ finally_return(r)

SpecPoolFair == SpecPool /\ \A r \in Reqs : WF_vars(RequestStep(r))

\* ------------------------------------------------------------- GET /tree
\* A finished GET /tree of thread r that found nodes.
TreeDone(r) == req[r].op = "get_tree" /\ req[r].pc = "done" /\ req[r].snap # <<>>

TopIds(r) == [i \in 1..Len(req[r].resp.tree) |-> req[r].resp.tree[i].contentId]

\* The entries of the response whose children list holds c.
Holders(r, c) ==
    {i \in 1..Len(req[r].resp.tree) : c \in SeqRange(req[r].resp.tree[i].children)}

\* The edges into c that were read, between nodes that were read.
Incoming(r, c) ==
    {e \in req[r].edges :
        e.child_id = c /\ {e.parent_id, e.child_id} \subseteq SeqRange(req[r].snap)}

\* C1: in the output of get tree() every node id is in the children list of at
\* most one node, and that node is the parent of the earliest-created edge
\* into the child.
C1_OneVisualParent ==
    \A r \in Reqs : TreeDone(r) =>
        \A c \in SeqRange(req[r].snap) :
            /\ Cardinality(Holders(r, c)) <= 1
            /\ \A i \in Holders(r, c) :
                 \E e \in Incoming(r, c) :
                    /\ e.parent_id = req[r].resp.tree[i].contentId
                    /\ \A f \in Incoming(r, c) : e.created_at <= f.created_at

\* created_at of a stored node
CreatedAt(id) == (CHOOSE n \in nodes : n.content_id = id).created_at

\* The node query returned x first and every other node was created later.
DesignatedRoot(r, x) ==
    /\ req[r].snap[1] = x
    /\ SeqRange(req[r].snap) \subseteq NodeIdsStored
    /\ \A k \in 2..Len(req[r].snap) : CreatedAt(x) < CreatedAt(req[r].snap[k])

\* C2: the designated root, the earliest-created node, is in no children list
\* of the output of get tree(), whatever edges point at it.
C2_RootNeverChild ==
    \A r \in Reqs : TreeDone(r) =>
        \A x \in NodeIds : DesignatedRoot(r, x) => Holders(r, x) = {}

\* C3: get tree() returns every stored node exactly once as a top-level entry,
\* in ascending createdAt order, children of other nodes included.
C3_AllNodesTopLevel ==
    \A r \in Reqs : TreeDone(r) => TopIds(r) = req[r].snap

\* C5: every id in the output of get tree(), top-level or in a children list,
\* is the id of a node that was stored when it was read, and an edge with a
\* missing endpoint changes nothing: a node whose incoming edges all come from
\* missing nodes stays a top-level entry.
C5_OnlyStoredIds ==
    \A r \in Reqs : TreeDone(r) =>
        LET ids == SeqRange(req[r].snap)
        IN  /\ SeqRange(TopIds(r)) \subseteq ids
            /\ \A i \in 1..Len(req[r].resp.tree) :
                 SeqRange(req[r].resp.tree[i].children) \subseteq ids
            /\ \A n \in ids : Incoming(r, n) = {} => n \in SeqRange(TopIds(r))

\* A get tree() that read an edge from a missing node to a stored node and an
\* edge from a stored node to a missing node, and answered with every node.
C5_Witness ==
    \E r \in Reqs :
        /\ TreeDone(r)
        /\ \E e, f \in req[r].edges :
              /\ e.parent_id \notin SeqRange(req[r].snap)
              /\ e.child_id \in SeqRange(req[r].snap)
              /\ f.parent_id \in SeqRange(req[r].snap)
              /\ f.child_id \notin SeqRange(req[r].snap)
        /\ Len(req[r].resp.tree) = Len(req[r].snap)

\* ------------------------------------------------- DELETE /node/delete/<id>
\* C4: once delete node(id) has returned for a node that existed, the node is
\* not stored and no stored edge and no stored click counter has id as an
\* endpoint.
C4_DeleteNodeCascades ==
    \A r \in Reqs :
        (req[r].op = "delete_node" /\ req[r].pc = "done" /\ req[r].resp.status # 404)
          => /\ req[r].a \notin NodeIdsStored
             /\ \A x \in rels : req[r].a \notin {x.parent_id, x.child_id}
             /\ \A x \in clicks : req[r].a \notin {x.source_id, x.target_id}

\* ---------------------------------------------------------- POST /link/click
ClicksOf(rows, s, t) == {x \in rows : x.source_id = s /\ x.target_id = t}

\* Thread r's recordClick, past its node check, returns in this step.
ClickReturns(r) ==
    req[r].op = "click_link" /\ req[r].pc = "upsert" /\ req'[r].pc = "done"

\* C6: each recordClick on a pair of stored nodes succeeds; the first creates
\* the counter with count 1 and firstClicked = lastClicked = its timestamp,
\* each further one adds 1 to count, keeps firstClicked and sets lastClicked to
\* its timestamp; the call reports the new count.  So N calls give count N
\* and the k-th reports k.
C6_ClickCounts ==
    [][\A r \in Reqs : ClickReturns(r) =>
          LET before == ClicksOf(clicks, req[r].a, req[r].b)
              after == ClicksOf(clicks', req[r].a, req[r].b)
          IN  /\ req'[r].resp.status = 200
              /\ Cardinality(after) = 1
              /\ \A x \in after :
                   /\ x.count = req'[r].resp.count
                   /\ x.last_clicked = req[r].now
                   /\ IF before = {}
                      THEN x.count = 1 /\ x.first_clicked = req[r].now
                      ELSE \A y \in before : /\ x.count = y.count + 1
                                             /\ x.first_clicked = y.first_clicked]_vars

\* Threads r and q have both answered a recordClick of the same pair with
\* success, and both had started when the pair's count was the same.
ClickedTogether(r, q) ==
    /\ r # q
    /\ req[r].op = "click_link" /\ req[q].op = "click_link"
    /\ req[r].pc = "done" /\ req[q].pc = "done"
    /\ req[r].resp.status = 200 /\ req[q].resp.status = 200
    /\ req[r].a = req[q].a /\ req[r].b = req[q].b
    /\ req[r].base = req[q].base

\* C7: concurrent recordClick calls of one pair that all succeed raise its
\* count by their number, and report different counts.
C7_NoLostClick ==
    \A r, q \in Reqs : ClickedTogether(r, q) =>
        /\ req[r].resp.count # req[q].resp.count
        /\ {req[r].resp.count, req[q].resp.count} = {req[r].base + 1, req[r].base + 2}
        /\ StoredCount(req[r].a, req[r].b) = req[r].base + 2

\* Two recordClick calls of a pair that had no counter ran together and succeeded.
C7_Witness ==
    \E r, q \in Reqs : ClickedTogether(r, q) /\ req[r].base = 0

\* ------------------------------------------------------------ the store
\* C8: both endpoints of every stored edge and of every stored click counter
\* are stored nodes.
C8_NoOrphans ==
    /\ \A x \in rels : {x.parent_id, x.child_id} \subseteq NodeIdsStored
    /\ \A x \in clicks : {x.source_id, x.target_id} \subseteq NodeIdsStored

\* delete node has answered for a stored node while a create edge or a record
\* click on that node was past its node check, and an edge on the node is stored.
C8_Witness ==
    \E r, q \in Reqs :
        /\ req[r].op = "delete_node" /\ req[r].pc = "done" /\ req[r].resp.status # 404
        /\ req[q].pc \in {"insert", "upsert"}
        /\ req[r].a \in {req[q].a, req[q].b}
        /\ \E x \in rels : req[r].a \in {x.parent_id, x.child_id}

\* C9: the store holds at most one edge row for an ordered (parent, child)
\* pair and at most one click counter row for an ordered (source, target) pair.
C9_UniquePairs ==
    /\ \A x, y \in rels :
         (x.parent_id = y.parent_id /\ x.child_id = y.child_id) => x = y
    /\ \A x, y \in clicks :
         (x.source_id = y.source_id /\ x.target_id = y.target_id) => x = y

\* ----------------------------------------------------- POST /relation/create
\* C10: create edge on a pair whose edge exists answers success, 'already
\* exists', and leaves the store as it was.
C10_CreateEdgeIdempotent ==
    [][\A r \in Reqs :
          (/\ req[r].op = "create_relation" /\ req[r].pc = "insert"
           /\ req'[r].pc = "done"
           /\ \E x \in rels : x.parent_id = req[r].a /\ x.child_id = req[r].b)
          => /\ req'[r].resp.status = 200
             /\ req'[r].resp.msg = "Relationship already exists"
             /\ rels' = rels /\ nodes' = nodes /\ clicks' = clicks]_vars

\* Thread r's create edge starts in this step.
CreateEdgeStarts(r) == req[r].pc = "idle" /\ req'[r].op = "create_relation"

\* C11: create edge with parentId = childId is rejected (400), and create edge
\* with an endpoint that is not a stored node answers not-found (404); both
\* leave the store as it was.  An edge row that create edge stores never has
\* parent = child.
C11_CreateEdgeRejects ==
    [][\A r \in Reqs :
          /\ CreateEdgeStarts(r) =>
                LET p == req'[r].a
                    c == req'[r].b
                IN  /\ nodes' = nodes /\ rels' = rels /\ clicks' = clicks
                    /\ p = c =>
                          req'[r].pc = "done" /\ req'[r].resp.status = 400
                    /\ (p # c /\ ~({p, c} \subseteq NodeIdsStored)) =>
                          req'[r].pc = "done" /\ req'[r].resp.status = 404
          /\ (req[r].op = "create_relation" /\ req[r].pc = "insert"
                /\ req'[r].pc = "done") =>
                /\ req[r].a # req[r].b
                /\ \A x \in rels' \ rels :
                      x.parent_id = req[r].a /\ x.child_id = req[r].b]_vars

\* A create edge between a stored node and an id that is not stored was
\* answered not-found.
C11_Witness ==
    \E r \in Reqs :
        /\ req[r].op = "create_relation" /\ req[r].pc = "done"
        /\ req[r].resp.status = 404
        /\ req[r].a \in NodeIdsStored /\ req[r].b \notin NodeIdsStored

\* --------------------------------------------------- DELETE /relation/delete
\* Thread r's delete edge, past its first statement, returns in this step.
DeleteEdgeReturns(r) ==
    req[r].op = "delete_relation" /\ req[r].pc = "del_rel" /\ req'[r].pc = "done"

EdgesOf(rows, p, c) == {x \in rows : x.parent_id = p /\ x.child_id = c}

\* C12: delete edge(p, c) on a stored edge removes that edge and the click
\* counter of the ordered pair (p, c), and nothing else: nodes, other edges
\* and other click counters stay as they were.
C12_DeleteEdgeFrame ==
    [][\A r \in Reqs :
          (DeleteEdgeReturns(r) /\ EdgesOf(rels, req[r].a, req[r].b) # {}) =>
              /\ req'[r].resp.status = 200
              /\ nodes' = nodes
              /\ rels' = rels \ EdgesOf(rels, req[r].a, req[r].b)
              /\ clicks' = clicks \ ClicksOf(clicks, req[r].a, req[r].b)]_vars

\* C20: delete edge(p, c) on a pair with no stored edge answers not-found and
\* leaves the store as it was: no step of the call changes nodes, edges or
\* click counters, the counters between p and c included.
C20_DeleteMissingEdge ==
    [][\A r \in Reqs :
          /\ (req[r].pc = "idle" /\ req'[r].op = "delete_relation") =>
                nodes' = nodes /\ rels' = rels /\ clicks' = clicks
          /\ (DeleteEdgeReturns(r) /\ EdgesOf(rels, req[r].a, req[r].b) = {}) =>
                /\ req'[r].resp.status = 404
                /\ nodes' = nodes /\ rels' = rels /\ clicks' = clicks]_vars

\* A delete edge on a pair without edge was answered not-found, and click
\* counters of both directions between the two ids are stored.
C20_Witness ==
    \E r \in Reqs :
        /\ req[r].op = "delete_relation" /\ req[r].pc = "done"
        /\ req[r].resp.status = 404
        /\ EdgesOf(rels, req[r].a, req[r].b) = {}
        /\ ClicksOf(clicks, req[r].a, req[r].b) # {}
        /\ ClicksOf(clicks, req[r].b, req[r].a) # {}

\* ------------------------------------------------------------- GET /tree
\* Both queries of thread r's finished GET /tree returned what is stored now.
\* Where rows are only added, nothing was written since that request began.
ReadCurrentStore(r) ==
    /\ TreeDone(r)
    /\ SeqRange(req[r].snap) = NodeIdsStored
    /\ req[r].edges = rels

\* C13: two get tree() calls with no write between them return the same
\* output: the same top-level entries in the same order, with the same
\* children lists in the same order, also when nodes or edges have equal
\* createdAt.
C13_ReadsAgree ==
    \A r, q \in Reqs :
        (ReadCurrentStore(r) /\ ReadCurrentStore(q)) =>
            req[r].resp.tree = req[q].resp.tree

\* ------------------------------------------------------------- the stats
\* The node ids that are source or target of a stored click counter.
ClickEndpoints == {x.source_id : x \in clicks} \cup {x.target_id : x \in clicks}

\* Thread r's finished allStats read the click counters that are stored now.
AllStatsDone(r) ==
    /\ req[r].op = "get_all_stats" /\ req[r].pc = "done"
    /\ req[r].inb = inbound_totals(clicks)
    /\ req[r].outb = outbound_totals(clicks)

\* C14: allStats() has an entry for every node id that is source or target of
\* a stored click counter; its inbound total is the sum of the counts of the
\* counters with that id as target, its outbound total the sum for that id as
\* source, 0 for a side without counters.
C14_AllStatsEntries ==
    \A r \in Reqs : AllStatsDone(r) =>
        \A n \in ClickEndpoints :
            /\ n \in DOMAIN req[r].resp.stats
            /\ req[r].resp.stats[n].total_inbound_count
                 = SumCount({x \in clicks : x.target_id = n})
            /\ req[r].resp.stats[n].total_outbound_count
                 = SumCount({x \in clicks : x.source_id = n})

\* Sum of the counts of a list of connections.
RECURSIVE ListSum(_)
ListSum(l) == IF l = <<>> THEN 0 ELSE Head(l).count + ListSum(Tail(l))

StatsDone(r) ==
    req[r].op \in {"inbound_stats", "outbound_stats"} /\ req[r].pc = "done"

\* C15: the total of every inboundStats and outboundStats response is the sum
\* of the counts of its own list, and the list is in descending order of
\* count, also when record click commits while the request runs.
C15_StatsConsistent ==
    \A r \in Reqs : StatsDone(r) =>
        /\ req[r].resp.count = ListSum(req[r].resp.list)
        /\ \A i \in 1..(Len(req[r].resp.list) - 1) :
              req[r].resp.list[i].count >= req[r].resp.list[i + 1].count

\* ---------------------------------------------------------- POST /link/click
\* C16: while a click counter exists, from one committed state to the next
\* its count never decreases, its firstClicked never changes and its
\* lastClicked never decreases, whatever the interleaving of record click
\* calls; and every stored counter has count >= 1 and firstClicked <=
\* lastClicked.
C16_CounterMonotone ==
    [][/\ \A x \in clicks : \A y \in clicks' :
             (y.source_id = x.source_id /\ y.target_id = x.target_id) =>
                 /\ y.count >= x.count
                 /\ y.first_clicked = x.first_clicked
                 /\ y.last_clicked >= x.last_clicked
       /\ \A y \in clicks' :
             y.count >= 1 /\ y.first_clicked <= y.last_clicked]_vars

\* ---------------------------------------------------------------- the nodes
\* Thread r starts the handler o in this step.
Starts(r, o) == req[r].pc = "idle" /\ req'[r].op = o

StoreUnchanged == nodes' = nodes /\ rels' = rels /\ clicks' = clicks

\* C17, as stated: update node(id, ...) and delete node(id) with an id that
\* is not stored answer not-found and leave nodes, edges and click counters
\* unchanged.
C17_NotFound ==
    [][\A r \in Reqs :
          ((Starts(r, "update_node") \/ Starts(r, "delete_node"))
             /\ req'[r].a \notin NodeIdsStored) =>
              /\ req'[r].pc = "done"
              /\ req'[r].resp.status = 404
              /\ StoreUnchanged]_vars

\* C17, amended: delete node(id), and update node(id, ...) with a body that
\* passes validation, with an id that is not stored answer not-found; update
\* node with a body that fails validation answers the validation error,
\* whether the id is stored or not; all of them leave nodes, edges and click
\* counters unchanged.
C17_NotFoundWhenValid ==
    [][\A r \in Reqs :
          /\ ((Starts(r, "update_node") \/ Starts(r, "delete_node"))
                /\ req'[r].a \notin NodeIdsStored) =>
                 /\ req'[r].pc = "done"
                 /\ req'[r].resp.status = IF req'[r].valid THEN 404 ELSE 400
                 /\ StoreUnchanged
          /\ (Starts(r, "update_node") /\ ~req'[r].valid) =>
                 /\ req'[r].pc = "done"
                 /\ req'[r].resp.status = 400
                 /\ StoreUnchanged]_vars

\* An update node with a valid body on an id that is not stored has been
\* answered not-found while other nodes are stored.
C17_Witness ==
    \E r \in Reqs :
        /\ req[r].op = "update_node" /\ req[r].pc = "done"
        /\ req[r].valid /\ req[r].resp.status = 404
        /\ req[r].a \notin NodeIdsStored
        /\ nodes # {}

\* C18: a search with an excluded id returns exactly the stored nodes that
\* match the text, without the excluded node and without the children of the
\* stored edges whose parent is the excluded node; a plain search returns
\* exactly the matching nodes; a search that finds nothing answers no-match;
\* no search changes the store.
C18_SearchUnrelated ==
    [][\A r \in Reqs :
          /\ Starts(r, "search_unrelated_nodes") =>
                LET kids == {x.child_id : x \in {y \in rels : y.parent_id = req'[r].a}}
                    want == (req'[r].hits \ {req'[r].a}) \ kids
                IN  /\ req'[r].pc = "done"
                    /\ req'[r].resp.ids = want
                    /\ req'[r].resp.status = IF want = {} THEN 404 ELSE 200
                    /\ StoreUnchanged
          /\ Starts(r, "search_nodes") =>
                /\ req'[r].pc = "done"
                /\ req'[r].resp.ids = req'[r].hits
                /\ req'[r].resp.status = IF req'[r].hits = {} THEN 404 ELSE 200
                /\ StoreUnchanged]_vars

\* A search found a node and left out the excluded node and one of its
\* children, which matched the text too.
C18_Witness ==
    \E r \in Reqs :
        /\ req[r].op = "search_unrelated_nodes" /\ req[r].pc = "done"
        /\ req[r].a \in req[r].hits
        /\ \E x \in rels : /\ x.parent_id = req[r].a
                            /\ x.child_id \in req[r].hits \ {req[r].a}
                            /\ x.child_id \notin req[r].resp.ids
        /\ req[r].resp.status = 200
        /\ req[r].resp.ids # {}

\* ------------------------------------------------------------- GET /tree
\* C19: get tree() answers the empty list, without error, exactly when it
\* finds no node; with nodes it answers at least one top-level entry, and
\* when every node is the child of an edge between nodes it answers the
\* first node in createdAt order alone.
C19_EmptyForestIffNoNode ==
    \A r \in Reqs : (req[r].op = "get_tree" /\ req[r].pc = "done") =>
        /\ req[r].resp.status = 200
        /\ (req[r].resp.tree = <<>>) <=> (req[r].snap = <<>>)
        /\ (/\ req[r].snap # <<>>
            /\ \A n \in SeqRange(req[r].snap) : Incoming(r, n) # {})
              => TopIds(r) = <<req[r].snap[1]>>

\* A get tree() on nodes that are all children, of a cycle of edges, answered
\* with one entry.
C19_Witness ==
    \E r \in Reqs :
        /\ TreeDone(r)
        /\ Len(req[r].snap) >= 2
        /\ \A n \in SeqRange(req[r].snap) : Incoming(r, n) # {}
        /\ Len(req[r].resp.tree) = 1

InFlight == {r \in Reqs : req[r].pc \notin {"idle", "done"}}

\* C22: every request that has obtained a connection gives it back, whether
\* its handler returns, returns early or raises.  So the connections checked
\* out are never more than the requests in flight, are those of requests in
\* flight, and are none once every request has finished.
C22_ConnectionReturned ==
    /\ [](/\ Cardinality(CheckedOut) <= Cardinality(InFlight)
          /\ CheckedOut \subseteq InFlight)
    /\ \A r \in Reqs : (r \in CheckedOut) ~> (r \notin CheckedOut)

\* A request whose handler raised has finished and holds no connection, while
\* another request has its connection checked out.
C22_Witness ==
    \E r, q \in Reqs :
        /\ req[r].op = "request" /\ req[r].pc = "done"
        /\ req[r].resp.msg = "Database error"
        /\ r \notin CheckedOut
        /\ q \in CheckedOut

\* C23: the connection pool is constructed at most once, whatever the
\* interleaving of the first requests: db_pool, once set, keeps naming the
\* same pool.
C23_PoolCreatedOnce ==
    /\ Cardinality(DOMAIN pools) <= 1
    /\ db_pool # 0 => DOMAIN pools = {db_pool}

\* One first request has constructed the pool and has a connection of it,
\* while another request, which arrived before that, is still at the lock.
C23_Witness ==
    /\ db_pool # 0
    /\ \E r, q \in Reqs :
          /\ req[r].op = "request" /\ req[r].pc = "lock"
          /\ q \in pools[db_pool]

====
